---- MODULE Spec2Model ----
(***************************************************************************)
(* vicepython-core: the Result / Option algebraic data types and their     *)
(* combinators (src/src/vicepython_core/{types,result,option}.py).         *)
(*                                                                         *)
(* Python objects live on a heap (a sequence of objects; a reference is an *)
(* index into it), so that "returns the original object" and "returns a   *)
(* new, equal object" are different outcomes.  A caller constructs the     *)
(* arguments, calls one combinator, and the state records the call: the    *)
(* heap at entry, the heap at exit, the arguments, the returned reference, *)
(* the arguments the caller-supplied function was invoked with, the         *)
(* positions of the input sequence that were fetched, and the exception    *)
(* that left the call, if one did.  A pipeline is a sequence of such calls, *)
(* each on the value the previous one returned (chain); a comparison       *)
(* records the value of `==` (equal).                                      *)
(***************************************************************************)
EXTENDS Integers, Sequences, FiniteSets

VARIABLES heap, pre, op, args, ret, calls, inspected, raised, chain, equal

vars == <<heap, pre, op, args, ret, calls, inspected, raised, chain, equal>>

(***************************************************************************)
(* Bounds.                                                                 *)
(***************************************************************************)
\* longest input sequence handed to collect
MaxLen == 3
\* most combinator calls chained after the first Result of a pipeline
MaxSteps == 2

(***************************************************************************)
(* Python values.  A field or a list slot holds either a literal (written  *)
(* as its Python repr) or a reference to a heap object.                    *)
(***************************************************************************)
Lit(s) == [lit |-> s]
Ref(n) == [ref |-> n]

None == Lit("None")

\* success payloads (type T): None and two integers, 0 being falsy
Values == {None, Lit("0"), Lit("1")}
\* error payloads (type E): texts, '' being falsy
Errors == {Lit("''"), Lit("'bad'")}
\* what a nullable external value (T | None) may be
Optionals == Values \cup Errors \cup {Lit("False")}

(***************************************************************************)
(* types.py: the four frozen dataclasses.  A constructor call builds the   *)
(* object; `kind` takes its default.                                       *)
(***************************************************************************)
Ok(value) == [cls |-> "Ok", value |-> value, kind |-> "ok"]
Err(error) == [cls |-> "Err", error |-> error, kind |-> "err"]
Some(value) == [cls |-> "Some", value |-> value, kind |-> "some"]
Nothing == [cls |-> "Nothing", kind |-> "nothing"]

\* a Python list object
List(items) == [cls |-> "list", items |-> items]

\* Result[T, E] and Option[T] as the caller can construct them
Result == {Ok(v) : v \in Values} \cup {Err(e) : e \in Errors}
Option == {Some(v) : v \in Values} \cup {Nothing}

\* the reference a function returns when it falls off its end
NoReturn == 0

\* no exception left the call
NoException == "none"

\* what a call of a caller-supplied function may do instead of returning
Raise(exc) == [raise |-> exc]
Raises == {Raise("ValueError")}

\* the call f(value) did not return: the exception leaves the combinator,
\* which has no try statement, before anything is built or returned
Propagate(h, value, exc) ==
    [heap |-> h, ret |-> NoReturn, calls |-> <<value>>, inspected |-> <<>>,
     raised |-> exc]

\* x == y for a class declared with eq=False: the same object only
dataclass_eq_identity(h, x, y) ==
    x = y

\* x == y for two values.  The __eq__ a dataclass generates answers for two
\* instances of the same class by comparing their fields in order; two
\* lists are equal when they are as long and equal slot by slot; literals
\* are compared by what they are.
RECURSIVE dataclass_eq(_, _, _)
dataclass_eq(h, x, y) ==
    IF DOMAIN x = {"lit"} \/ DOMAIN y = {"lit"}
    THEN x = y
    ELSE IF x.ref = y.ref
    THEN TRUE
    ELSE LET a == h[x.ref]
             b == h[y.ref]
         IN IF a.cls # b.cls
            THEN FALSE
            ELSE IF a.cls = "list"
            THEN /\ Len(a.items) = Len(b.items)
                 /\ \A i \in 1..Len(a.items) :
                       dataclass_eq(h, a.items[i], b.items[i])
            ELSE \A k \in DOMAIN a \ {"cls"} :
                    IF k = "kind"
                    THEN a.kind = b.kind
                    ELSE dataclass_eq(h, a[k], b[k])

\* the classes declared with @dataclass(frozen=True)
Frozen == {"Ok", "Err", "Some", "Nothing"}

\* obj.name = value on a class declared without frozen=True
setattr_unfrozen(h, obj, name, value) ==
    [heap |-> [h EXCEPT ![obj] = [k \in DOMAIN @ \cup {name} |->
                                     IF k = name THEN value ELSE @[k]]],
     ret |-> NoReturn, calls |-> <<>>, inspected |-> <<>>,
     raised |-> NoException]

\* obj.name = value: the __setattr__ of a frozen dataclass raises
\* FrozenInstanceError (an AttributeError) and assigns nothing
setattr(h, obj, name, value) ==
    IF h[obj].cls \in Frozen
    THEN [heap |-> h, ret |-> NoReturn, calls |-> <<>>, inspected |-> <<>>,
          raised |-> "FrozenInstanceError"]
    ELSE [heap |-> [h EXCEPT ![obj] = [k \in DOMAIN @ \cup {name} |->
                                          IF k = name THEN value ELSE @[k]]],
          ret |-> NoReturn, calls |-> <<>>, inspected |-> <<>>,
          raised |-> NoException]

(***************************************************************************)
(* result.py                                                               *)
(***************************************************************************)
\* map_ok that rebuilds the Ok without applying f
map_ok_unapplied(h, result, f) ==
    IF h[result].cls = "Ok"
    THEN LET value == h[result].value
         IN [heap |-> Append(h, Ok(value)), ret |-> Len(h) + 1,
             calls |-> <<>>, inspected |-> <<>>,
             raised |-> NoException]
    ELSE [heap |-> h, ret |-> result, calls |-> <<>>, inspected |-> <<>>,
          raised |-> NoException]

\* map_ok whose Err case falls off the end of the function
map_ok_no_err_return(h, result, f) ==
    IF h[result].cls = "Ok"
    THEN LET value == h[result].value
         IN IF f[value] \in Raises
            THEN Propagate(h, value, f[value].raise)
            ELSE [heap |-> Append(h, Ok(f[value])), ret |-> Len(h) + 1,
                  calls |-> <<value>>, inspected |-> <<>>,
                  raised |-> NoException]
    ELSE [heap |-> h, ret |-> NoReturn, calls |-> <<>>, inspected |-> <<>>,
          raised |-> NoException]

\* map_ok with f(value) inside try/except, answering Err(exception)
map_ok_catching(h, result, f) ==
    IF h[result].cls = "Ok"
    THEN LET value == h[result].value
         IN IF f[value] \in Raises
            THEN [heap |-> Append(h, Err(Lit(f[value].raise))),
                  ret |-> Len(h) + 1,
                  calls |-> <<value>>, inspected |-> <<>>,
                  raised |-> NoException]
            ELSE [heap |-> Append(h, Ok(f[value])), ret |-> Len(h) + 1,
                  calls |-> <<value>>, inspected |-> <<>>,
                  raised |-> NoException]
    ELSE [heap |-> h, ret |-> result, calls |-> <<>>, inspected |-> <<>>,
          raised |-> NoException]

\* map_ok(result, f): f is a function value on payloads
map_ok(h, result, f) ==
    IF h[result].cls = "Ok"
    THEN LET value == h[result].value
         IN IF f[value] \in Raises
            THEN Propagate(h, value, f[value].raise)
            ELSE [heap |-> Append(h, Ok(f[value])), ret |-> Len(h) + 1,
                  calls |-> <<value>>, inspected |-> <<>>,
                  raised |-> NoException]
    ELSE IF h[result].cls = "Err"
    THEN [heap |-> h, ret |-> result, calls |-> <<>>, inspected |-> <<>>,
          raised |-> NoException]
    ELSE [heap |-> h, ret |-> NoReturn, calls |-> <<>>, inspected |-> <<>>,
          raised |-> NoException]

\* and_then that wraps what f returns in Ok, as map_ok does
result_and_then_wrapping(h, result, f) ==
    IF h[result].cls = "Ok"
    THEN LET value == h[result].value
             h1 == Append(h, f[value])
         IN [heap |-> Append(h1, Ok(Ref(Len(h1)))), ret |-> Len(h1) + 1,
             calls |-> <<value>>, inspected |-> <<>>,
             raised |-> NoException]
    ELSE [heap |-> h, ret |-> result, calls |-> <<>>, inspected |-> <<>>,
          raised |-> NoException]

\* and_then that returns its argument when f answers Err
result_and_then_fallback(h, result, f) ==
    IF h[result].cls = "Ok"
    THEN LET value == h[result].value
         IN IF f[value] \in Raises
            THEN Propagate(h, value, f[value].raise)
            ELSE IF f[value].cls = "Err"
            THEN [heap |-> Append(h, f[value]), ret |-> result,
                  calls |-> <<value>>, inspected |-> <<>>,
                  raised |-> NoException]
            ELSE [heap |-> Append(h, f[value]), ret |-> Len(h) + 1,
                  calls |-> <<value>>, inspected |-> <<>>,
                  raised |-> NoException]
    ELSE [heap |-> h, ret |-> result, calls |-> <<>>, inspected |-> <<>>,
          raised |-> NoException]

\* and_then whose Err case falls off the end of the function
result_and_then_no_err_return(h, result, f) ==
    IF h[result].cls = "Ok"
    THEN LET value == h[result].value
         IN IF f[value] \in Raises
            THEN Propagate(h, value, f[value].raise)
            ELSE [heap |-> Append(h, f[value]), ret |-> Len(h) + 1,
                  calls |-> <<value>>, inspected |-> <<>>,
                  raised |-> NoException]
    ELSE [heap |-> h, ret |-> NoReturn, calls |-> <<>>, inspected |-> <<>>,
          raised |-> NoException]

\* and_then(result, f): f builds and returns a new Result object
result_and_then(h, result, f) ==
    IF h[result].cls = "Ok"
    THEN LET value == h[result].value
         IN IF f[value] \in Raises
            THEN Propagate(h, value, f[value].raise)
            ELSE [heap |-> Append(h, f[value]), ret |-> Len(h) + 1,
                  calls |-> <<value>>, inspected |-> <<>>,
                  raised |-> NoException]
    ELSE IF h[result].cls = "Err"
    THEN [heap |-> h, ret |-> result, calls |-> <<>>, inspected |-> <<>>,
          raised |-> NoException]
    ELSE [heap |-> h, ret |-> NoReturn, calls |-> <<>>, inspected |-> <<>>,
          raised |-> NoException]

\* the loop of collect with `continue` in place of `return result`
RECURSIVE collect_loop_skipping(_, _, _, _, _)
collect_loop_skipping(h, results, cv, i, seen) ==
    IF i > Len(h[results].items)
    THEN [heap |-> Append(h, Ok(Ref(cv))), ret |-> Len(h) + 1,
          calls |-> <<>>, inspected |-> seen,
          raised |-> NoException]
    ELSE LET result == h[results].items[i].ref
         IN IF h[result].cls = "Ok"
            THEN collect_loop_skipping(
                     [h EXCEPT ![cv].items = Append(@, h[result].value)],
                     results, cv, i + 1, Append(seen, i))
            ELSE collect_loop_skipping(h, results, cv, i + 1, Append(seen, i))

\* the loop of collect with insert(0, value) in place of append(value)
RECURSIVE collect_loop_prepending(_, _, _, _, _)
collect_loop_prepending(h, results, cv, i, seen) ==
    IF i > Len(h[results].items)
    THEN [heap |-> Append(h, Ok(Ref(cv))), ret |-> Len(h) + 1,
          calls |-> <<>>, inspected |-> seen,
          raised |-> NoException]
    ELSE LET result == h[results].items[i].ref
         IN IF h[result].cls = "Ok"
            THEN collect_loop_prepending(
                     [h EXCEPT ![cv].items = <<h[result].value>> \o @],
                     results, cv, i + 1, Append(seen, i))
            ELSE [heap |-> h, ret |-> result,
                  calls |-> <<>>, inspected |-> Append(seen, i),
                  raised |-> NoException]

\* the loop of collect with `return Err(result.error)` in place of
\* `return result`
RECURSIVE collect_loop_copying(_, _, _, _, _)
collect_loop_copying(h, results, cv, i, seen) ==
    IF i > Len(h[results].items)
    THEN [heap |-> Append(h, Ok(Ref(cv))), ret |-> Len(h) + 1,
          calls |-> <<>>, inspected |-> seen,
          raised |-> NoException]
    ELSE LET result == h[results].items[i].ref
         IN IF h[result].cls = "Ok"
            THEN collect_loop_copying(
                     [h EXCEPT ![cv].items = Append(@, h[result].value)],
                     results, cv, i + 1, Append(seen, i))
            ELSE [heap |-> Append(h, Err(h[result].error)),
                  ret |-> Len(h) + 1,
                  calls |-> <<>>, inspected |-> Append(seen, i),
                  raised |-> NoException]

\* the for loop of collect: cv is the list collected_values, i the position
\* the iterator fetches next, seen the positions fetched so far
RECURSIVE collect_loop(_, _, _, _, _)
collect_loop(h, results, cv, i, seen) ==
    IF i > Len(h[results].items)
    THEN [heap |-> Append(h, Ok(Ref(cv))), ret |-> Len(h) + 1,
          calls |-> <<>>, inspected |-> seen,
          raised |-> NoException]
    ELSE LET result == h[results].items[i].ref
         IN IF h[result].cls = "Ok"
            THEN collect_loop([h EXCEPT ![cv].items = Append(@, h[result].value)],
                              results, cv, i + 1, Append(seen, i))
            ELSE IF h[result].cls = "Err"
            THEN [heap |-> h, ret |-> result,
                  calls |-> <<>>, inspected |-> Append(seen, i),
                  raised |-> NoException]
            ELSE collect_loop(h, results, cv, i + 1, Append(seen, i))

\* collect(results): results refers to a list of references to Results
collect(h, results) ==
    collect_loop(Append(h, List(<<>>)), results, Len(h) + 1, 1, <<>>)

\* map_err that rebuilds the Err without applying f
map_err_unapplied(h, result, f) ==
    IF h[result].cls = "Ok"
    THEN LET v == h[result].value
         IN [heap |-> Append(h, Ok(v)), ret |-> Len(h) + 1,
             calls |-> <<>>, inspected |-> <<>>,
             raised |-> NoException]
    ELSE LET e == h[result].error
         IN [heap |-> Append(h, Err(e)), ret |-> Len(h) + 1,
             calls |-> <<>>, inspected |-> <<>>,
             raised |-> NoException]

\* map_err(result, f)
map_err(h, result, f) ==
    IF h[result].cls = "Ok"
    THEN LET v == h[result].value
         IN [heap |-> Append(h, Ok(v)), ret |-> Len(h) + 1,
             calls |-> <<>>, inspected |-> <<>>,
             raised |-> NoException]
    ELSE IF h[result].cls = "Err"
    THEN LET e == h[result].error
         IN IF f[e] \in Raises
            THEN Propagate(h, e, f[e].raise)
            ELSE [heap |-> Append(h, Err(f[e])), ret |-> Len(h) + 1,
                  calls |-> <<e>>, inspected |-> <<>>,
                  raised |-> NoException]
    ELSE [heap |-> h, ret |-> NoReturn, calls |-> <<>>, inspected |-> <<>>,
          raised |-> NoException]

\* discard_ok_value that answers Ok(None) for an Err too
discard_ok_value_suppressing(h, result) ==
    [heap |-> Append(h, Ok(None)), ret |-> Len(h) + 1,
     calls |-> <<>>, inspected |-> <<>>,
     raised |-> NoException]

\* discard_ok_value(result)
discard_ok_value(h, result) ==
    IF h[result].cls = "Ok"
    THEN [heap |-> Append(h, Ok(None)), ret |-> Len(h) + 1,
          calls |-> <<>>, inspected |-> <<>>,
          raised |-> NoException]
    ELSE IF h[result].cls = "Err"
    THEN LET e == h[result].error
         IN [heap |-> Append(h, Err(e)), ret |-> Len(h) + 1,
             calls |-> <<>>, inspected |-> <<>>,
             raised |-> NoException]
    ELSE [heap |-> h, ret |-> NoReturn, calls |-> <<>>, inspected |-> <<>>,
          raised |-> NoException]

(***************************************************************************)
(* option.py                                                               *)
(***************************************************************************)
\* map_some that returns f(value) without wrapping it in Some
map_some_unwrapped(h, opt, f) ==
    IF h[opt].cls = "Some"
    THEN LET value == h[opt].value
         IN [heap |-> Append(h, f[value]), ret |-> Len(h) + 1,
             calls |-> <<value>>, inspected |-> <<>>,
             raised |-> NoException]
    ELSE [heap |-> h, ret |-> opt, calls |-> <<>>, inspected |-> <<>>,
          raised |-> NoException]

\* map_some that evaluates f(value) twice
map_some_twice(h, opt, f) ==
    IF h[opt].cls = "Some"
    THEN LET value == h[opt].value
         IN IF f[value] \in Raises
            THEN Propagate(h, value, f[value].raise)
            ELSE [heap |-> Append(h, Some(f[value])), ret |-> Len(h) + 1,
                  calls |-> <<value, value>>, inspected |-> <<>>,
                  raised |-> NoException]
    ELSE [heap |-> h, ret |-> opt, calls |-> <<>>, inspected |-> <<>>,
          raised |-> NoException]

\* map_some(opt, f)
map_some(h, opt, f) ==
    IF h[opt].cls = "Some"
    THEN LET value == h[opt].value
         IN IF f[value] \in Raises
            THEN Propagate(h, value, f[value].raise)
            ELSE [heap |-> Append(h, Some(f[value])), ret |-> Len(h) + 1,
                  calls |-> <<value>>, inspected |-> <<>>,
                  raised |-> NoException]
    ELSE IF h[opt].cls = "Nothing"
    THEN [heap |-> h, ret |-> opt, calls |-> <<>>, inspected |-> <<>>,
          raised |-> NoException]
    ELSE [heap |-> h, ret |-> NoReturn, calls |-> <<>>, inspected |-> <<>>,
          raised |-> NoException]

\* and_then that wraps what f returns in Some, as map_some does
option_and_then_wrapping(h, opt, f) ==
    IF h[opt].cls = "Some"
    THEN LET value == h[opt].value
             h1 == Append(h, f[value])
         IN [heap |-> Append(h1, Some(Ref(Len(h1)))), ret |-> Len(h1) + 1,
             calls |-> <<value>>, inspected |-> <<>>,
             raised |-> NoException]
    ELSE [heap |-> h, ret |-> opt, calls |-> <<>>, inspected |-> <<>>,
          raised |-> NoException]

\* and_then(opt, f): f builds and returns a new Option object
option_and_then(h, opt, f) ==
    IF h[opt].cls = "Some"
    THEN LET value == h[opt].value
         IN IF f[value] \in Raises
            THEN Propagate(h, value, f[value].raise)
            ELSE [heap |-> Append(h, f[value]), ret |-> Len(h) + 1,
                  calls |-> <<value>>, inspected |-> <<>>,
                  raised |-> NoException]
    ELSE IF h[opt].cls = "Nothing"
    THEN [heap |-> h, ret |-> opt, calls |-> <<>>, inspected |-> <<>>,
          raised |-> NoException]
    ELSE [heap |-> h, ret |-> NoReturn, calls |-> <<>>, inspected |-> <<>>,
          raised |-> NoException]

\* option_from_optional testing `not value` in place of `value is None`
option_from_optional_truthy(h, value) ==
    IF value \in {None, Lit("0"), Lit("''"), Lit("False")}
    THEN [heap |-> Append(h, Nothing), ret |-> Len(h) + 1,
          calls |-> <<>>, inspected |-> <<>>,
          raised |-> NoException]
    ELSE [heap |-> Append(h, Some(value)), ret |-> Len(h) + 1,
          calls |-> <<>>, inspected |-> <<>>,
          raised |-> NoException]

\* option_from_optional(value): `value is None` is the only test
option_from_optional(h, value) ==
    IF value = None
    THEN [heap |-> Append(h, Nothing), ret |-> Len(h) + 1,
          calls |-> <<>>, inspected |-> <<>>,
          raised |-> NoException]
    ELSE [heap |-> Append(h, Some(value)), ret |-> Len(h) + 1,
          calls |-> <<>>, inspected |-> <<>>,
          raised |-> NoException]

\* require_some that answers Err(None) in place of Err(err)
require_some_dropping(h, opt, err) ==
    IF h[opt].cls = "Some"
    THEN LET value == h[opt].value
         IN [heap |-> Append(h, Ok(value)), ret |-> Len(h) + 1,
             calls |-> <<>>, inspected |-> <<>>,
             raised |-> NoException]
    ELSE [heap |-> Append(h, Err(None)), ret |-> Len(h) + 1,
          calls |-> <<>>, inspected |-> <<>>,
          raised |-> NoException]

\* require_some(opt, err)
require_some(h, opt, err) ==
    IF h[opt].cls = "Some"
    THEN LET value == h[opt].value
         IN [heap |-> Append(h, Ok(value)), ret |-> Len(h) + 1,
             calls |-> <<>>, inspected |-> <<>>,
             raised |-> NoException]
    ELSE IF h[opt].cls = "Nothing"
    THEN [heap |-> Append(h, Err(err)), ret |-> Len(h) + 1,
          calls |-> <<>>, inspected |-> <<>>,
          raised |-> NoException]
    ELSE [heap |-> h, ret |-> NoReturn, calls |-> <<>>, inspected |-> <<>>,
          raised |-> NoException]

(***************************************************************************)
(* The caller: construct the arguments, make one call, record it.          *)
(***************************************************************************)
Record(name, a, h0, out) ==
    /\ op = "none"
    /\ op' = name
    /\ args' = a
    /\ pre' = h0
    /\ heap' = out.heap
    /\ ret' = out.ret
    /\ calls' = out.calls
    /\ inspected' = out.inspected
    /\ raised' = out.raised
    /\ chain' = <<>>
    /\ equal' = FALSE

\* sequences of at most n Results
SeqsUpTo(n) == UNION {[1..k -> Result] : k \in 0..n}

\* the heap after `results = [r1, ..., rk]`: the elements, then the list
ListHeap(rs) == Append(rs, List([i \in 1..Len(rs) |-> Ref(i)]))

Call_map_ok ==
    \E r \in Result, f \in [Values -> Values \cup Raises] :
        LET h0 == <<r>>
        IN Record("map_ok", [result |-> 1, f |-> f], h0, map_ok(h0, 1, f))

Call_result_and_then ==
    \E r \in Result, f \in [Values -> Result \cup Raises] :
        LET h0 == <<r>>
        IN Record("result.and_then", [result |-> 1, f |-> f], h0,
                  result_and_then(h0, 1, f))

Call_collect ==
    \E rs \in SeqsUpTo(MaxLen) :
        LET h0 == ListHeap(rs)
        IN Record("collect", [results |-> Len(h0)], h0, collect(h0, Len(h0)))

Call_map_err ==
    \E r \in Result, f \in [Errors -> Errors \cup Raises] :
        LET h0 == <<r>>
        IN Record("map_err", [result |-> 1, f |-> f], h0, map_err(h0, 1, f))

Call_discard_ok_value ==
    \E r \in Result :
        LET h0 == <<r>>
        IN Record("discard_ok_value", [result |-> 1], h0,
                  discard_ok_value(h0, 1))

Call_map_some ==
    \E o \in Option, f \in [Values -> Values \cup Raises] :
        LET h0 == <<o>>
        IN Record("map_some", [opt |-> 1, f |-> f], h0, map_some(h0, 1, f))

Call_option_and_then ==
    \E o \in Option, f \in [Values -> Option \cup Raises] :
        LET h0 == <<o>>
        IN Record("option.and_then", [opt |-> 1, f |-> f], h0,
                  option_and_then(h0, 1, f))

Call_option_from_optional ==
    \E value \in Optionals :
        Record("option_from_optional", [value |-> value], <<>>,
               option_from_optional(<<>>, value))

Call_require_some ==
    \E o \in Option, err \in Errors :
        LET h0 == <<o>>
        IN Record("require_some", [opt |-> 1, err |-> err], h0,
                  require_some(h0, 1, err))

\* the caller assigns to a field of an instance it constructed
Call_setattr ==
    \E o \in Result \cup Option, name \in {"value", "error", "kind"} :
        \E value \in IF name = "kind" THEN {"something"} ELSE Values :
            /\ name \in DOMAIN o
            /\ LET h0 == <<o>>
               IN Record("setattr",
                         [obj |-> 1, name |-> name, value |-> value],
                         h0, setattr(h0, 1, name, value))

\* after collect returned Ok(values), the caller appends to the list it
\* passed in or to the list it got back
Append_after_collect ==
    /\ op = "collect"
    /\ heap[ret].cls = "Ok"
    /\ \E target \in {args.results, heap[ret].value.ref} :
          /\ op' = "collect.append"
          /\ args' = [results |-> args.results, target |-> target]
          /\ pre' = heap
          /\ heap' = [heap EXCEPT ![target].items = Append(@, None)]
          /\ UNCHANGED <<ret, calls, inspected, raised, chain, equal>>

(***************************************************************************)
(* A pipeline: result = parse(...); result = and_then(result, f1);         *)
(* result = map_ok(result, f2); ...  Each step is one call on the value    *)
(* the previous step returned.                                             *)
(***************************************************************************)
\* the integers and the Results of the pipelines
Ints == {Lit("0"), Lit("1")}
IntResult == {Ok(v) : v \in Ints} \cup {Err(e) : e \in Errors}

\* one step: the call made, what it returned, how it invoked its f
Step(name, f, out) ==
    /\ op = "pipeline"
    /\ Len(chain) < MaxSteps
    /\ heap' = out.heap
    /\ ret' = out.ret
    /\ calls' = calls \o out.calls
    /\ raised' = out.raised
    /\ chain' = Append(chain, [step |-> name, f |-> f, ret |-> out.ret,
                               calls |-> out.calls])
    /\ UNCHANGED <<pre, op, args, inspected, equal>>

\* result = parse_int(s)
Begin_pipeline ==
    \E r \in IntResult :
        /\ op = "none"
        /\ op' = "pipeline"
        /\ args' = [result |-> 1]
        /\ pre' = <<r>>
        /\ heap' = <<r>>
        /\ ret' = 1
        /\ UNCHANGED <<calls, inspected, raised, chain, equal>>

\* result = and_then(result, f)
Pipe_and_then ==
    \E f \in [Ints -> IntResult] :
        Step("and_then", f, result_and_then(heap, ret, f))

\* result = map_ok(result, f)
Pipe_map_ok ==
    \E f \in [Ints -> Ints] :
        Step("map_ok", f, map_ok(heap, ret, f))

(***************************************************************************)
(* Comparisons: the caller evaluates `==` on two values it has built.      *)
(***************************************************************************)
\* a == b for two instances constructed one after the other
Call_eq ==
    \E a \in Result \cup Option, b \in Result \cup Option :
        LET h0 == <<a, b>>
        IN /\ op = "none"
           /\ op' = "eq"
           /\ args' = [a |-> 1, b |-> 2]
           /\ pre' = h0
           /\ heap' = h0
           /\ equal' = dataclass_eq(h0, Ref(1), Ref(2))
           /\ UNCHANGED <<ret, calls, inspected, raised, chain>>

\* and_then(and_then(r, f), g) == and_then(r, lambda x: and_then(f(x), g))
Call_and_then_assoc ==
    \E r \in IntResult, f \in [Ints -> IntResult], g \in [Ints -> IntResult] :
        LET h0 == <<r>>
            inner == result_and_then(h0, 1, f)
            lhs == result_and_then(inner.heap, inner.ret, g)
            \* what the lambda returns for x
            fg == [x \in Ints |->
                      LET y == result_and_then(<<f[x]>>, 1, g)
                      IN y.heap[y.ret]]
            rhs == result_and_then(lhs.heap, 1, fg)
        IN /\ op = "none"
           /\ op' = "and_then.assoc"
           /\ args' = [result |-> 1, f |-> f, g |-> g,
                       lhs |-> lhs.ret, rhs |-> rhs.ret]
           /\ pre' = h0
           /\ heap' = rhs.heap
           /\ ret' = lhs.ret
           /\ calls' = inner.calls \o lhs.calls \o rhs.calls
           /\ equal' = dataclass_eq(rhs.heap, Ref(lhs.ret), Ref(rhs.ret))
           /\ UNCHANGED <<inspected, raised, chain>>

Init ==
    /\ heap = <<>>
    /\ pre = <<>>
    /\ op = "none"
    /\ args = <<>>
    /\ ret = NoReturn
    /\ calls = <<>>
    /\ inspected = <<>>
    /\ raised = NoException
    /\ chain = <<>>
    /\ equal = FALSE

Next ==
    \/ Call_map_ok
    \/ Call_result_and_then
    \/ Call_collect
    \/ Call_map_err
    \/ Call_discard_ok_value
    \/ Call_map_some
    \/ Call_option_and_then
    \/ Call_option_from_optional
    \/ Call_require_some
    \/ Call_setattr
    \/ Begin_pipeline
    \/ Pipe_and_then
    \/ Pipe_map_ok
    \/ Call_eq
    \/ Call_and_then_assoc
    \/ Append_after_collect

Spec == Init /\ [][Next]_vars

(***************************************************************************)
(* Properties of result.collect                                            *)
(***************************************************************************)
\* C1: when the input sequence of collect holds at least one Err, collect
\* returns a value equal to the Err at the smallest index, with that Err's
\* error value, whatever follows it, and no position after that index is
\* fetched from the input.
CollectFailFast ==
    op = "collect" =>
        LET items == pre[args.results].items
            IsErr(i) == pre[items[i].ref].cls = "Err"
            ErrAt == {i \in 1..Len(items) : IsErr(i)}
        IN ErrAt # {} =>
              LET k == CHOOSE i \in ErrAt : \A j \in ErrAt : i <= j
              IN /\ ret # NoReturn
                 /\ heap[ret] = Err(pre[items[k].ref].error)
                 /\ \A i \in 1..Len(inspected) : inspected[i] <= k

\* a call of collect on [Ok, Err(''), Err('bad')] has returned Err('')
CollectFailFastWitness ==
    /\ op = "collect"
    /\ Len(pre[args.results].items) = 3
    /\ pre[1].cls = "Ok"
    /\ pre[2] = Err(Lit("''"))
    /\ pre[3] = Err(Lit("'bad'"))
    /\ heap[ret] = Err(Lit("''"))
    /\ inspected = <<1, 2>>

\* C2: when every element of the input sequence of collect is Ok, collect
\* returns Ok of a list as long as the input whose i-th element is the value
\* of the i-th input element; for the empty input that is Ok of the empty
\* list.
CollectAllOk ==
    op = "collect" =>
        LET items == pre[args.results].items
        IN (\A i \in 1..Len(items) : pre[items[i].ref].cls = "Ok") =>
              /\ ret # NoReturn
              /\ heap[ret].cls = "Ok"
              /\ heap[ret] = Ok(heap[ret].value)
              /\ heap[ret].value \in {Ref(a) : a \in 1..Len(heap)}
              /\ LET out == heap[heap[ret].value.ref]
                 IN /\ out.cls = "list"
                    /\ Len(out.items) = Len(items)
                    /\ \A i \in 1..Len(items) :
                          out.items[i] = pre[items[i].ref].value
                    /\ (items = <<>> => out = List(<<>>))

\* a call of collect on [Ok(1), Ok(0), Ok(1)] has returned Ok([1, 0, 1])
CollectAllOkWitness ==
    /\ op = "collect"
    /\ pre = ListHeap(<<Ok(Lit("1")), Ok(Lit("0")), Ok(Lit("1"))>>)
    /\ heap[ret].cls = "Ok"
    /\ heap[heap[ret].value.ref] = List(<<Lit("1"), Lit("0"), Lit("1")>>)

(***************************************************************************)
(* Properties of the other Result combinators                              *)
(***************************************************************************)
\* C3: and_then on Ok(v), for an f that returns a Result for v, returns a
\* value equal to f(v); and_then on Err(e) returns the original Err object,
\* equal to Err(e), and f is not invoked.
ResultAndThenBind ==
    op = "result.and_then" =>
        LET result == pre[args.result]
        IN /\ (result.cls = "Ok" /\ args.f[result.value] \notin Raises) =>
                 /\ ret # NoReturn
                 /\ heap[ret] = args.f[result.value]
           /\ result.cls = "Err" =>
                 /\ ret = args.result
                 /\ heap[ret] = Err(result.error)
                 /\ calls = <<>>

\* and_then(Ok(1), f) with f(1) = Err('bad') has returned Err('bad')
ResultAndThenBindWitness ==
    /\ op = "result.and_then"
    /\ pre[args.result] = Ok(Lit("1"))
    /\ args.f[Lit("1")] = Err(Lit("'bad'"))
    /\ heap[ret] = Err(Lit("'bad'"))
    /\ calls = <<Lit("1")>>

\* C4: map_ok on Ok(v), for an f that returns a value for v, returns a
\* value equal to Ok(f(v)); map_ok on Err(e) returns the original Err
\* object, equal to Err(e), and f is not invoked.
MapOkContract ==
    op = "map_ok" =>
        LET result == pre[args.result]
        IN /\ (result.cls = "Ok" /\ args.f[result.value] \notin Raises) =>
                 /\ ret # NoReturn
                 /\ heap[ret] = Ok(args.f[result.value])
           /\ result.cls = "Err" =>
                 /\ ret = args.result
                 /\ heap[ret] = Err(result.error)
                 /\ calls = <<>>

\* map_ok(Ok(0), f) with f(0) = 1 has returned Ok(1)
MapOkContractWitness ==
    /\ op = "map_ok"
    /\ pre[args.result] = Ok(Lit("0"))
    /\ args.f[Lit("0")] = Lit("1")
    /\ heap[ret] = Ok(Lit("1"))

\* C5: map_err on Ok(v) returns a value equal to Ok(v) and f is not
\* invoked; map_err on Err(e), for an f that returns a value for e, returns
\* a value equal to Err(f(e)).
MapErrContract ==
    op = "map_err" =>
        LET result == pre[args.result]
        IN /\ result.cls = "Ok" =>
                 /\ ret # NoReturn
                 /\ heap[ret] = Ok(result.value)
                 /\ calls = <<>>
           /\ (result.cls = "Err" /\ args.f[result.error] \notin Raises) =>
                 /\ ret # NoReturn
                 /\ heap[ret] = Err(args.f[result.error])

\* map_err(Err(''), f) with f('') = 'bad' has returned Err('bad')
MapErrContractWitness ==
    /\ op = "map_err"
    /\ pre[args.result] = Err(Lit("''"))
    /\ args.f[Lit("''")] = Lit("'bad'")
    /\ heap[ret] = Err(Lit("'bad'"))

\* C6: discard_ok_value on Ok(v) returns a value equal to Ok(None) whatever
\* v is; discard_ok_value on Err(e) returns a value equal to Err(e).
DiscardOkValueContract ==
    op = "discard_ok_value" =>
        LET result == pre[args.result]
        IN /\ ret # NoReturn
           /\ result.cls = "Ok" => heap[ret] = Ok(None)
           /\ result.cls = "Err" => heap[ret] = Err(result.error)

\* discard_ok_value(Err('bad')) has returned Err('bad')
DiscardOkValueContractWitness ==
    /\ op = "discard_ok_value"
    /\ pre[args.result] = Err(Lit("'bad'"))
    /\ heap[ret] = Err(Lit("'bad'"))

(***************************************************************************)
(* Properties of the Option combinators                                    *)
(***************************************************************************)
\* C7: map_some on Some(v), for an f that returns a value for v, returns a
\* value equal to Some(f(v)); map_some on Nothing returns a value equal to
\* Nothing and f is not invoked.
MapSomeContract ==
    op = "map_some" =>
        LET opt == pre[args.opt]
        IN /\ (opt.cls = "Some" /\ args.f[opt.value] \notin Raises) =>
                 /\ ret # NoReturn
                 /\ heap[ret] = Some(args.f[opt.value])
           /\ opt.cls = "Nothing" =>
                 /\ ret # NoReturn
                 /\ heap[ret] = Nothing
                 /\ calls = <<>>

\* map_some(Some(1), f) with f(1) = 0 has returned Some(0)
MapSomeContractWitness ==
    /\ op = "map_some"
    /\ pre[args.opt] = Some(Lit("1"))
    /\ args.f[Lit("1")] = Lit("0")
    /\ heap[ret] = Some(Lit("0"))

\* C8: Option and_then on Some(v), for an f that returns an Option for v,
\* returns a value equal to f(v), which may be Nothing; on Nothing it
\* returns a value equal to Nothing and f is not invoked.
OptionAndThenBind ==
    op = "option.and_then" =>
        LET opt == pre[args.opt]
        IN /\ (opt.cls = "Some" /\ args.f[opt.value] \notin Raises) =>
                 /\ ret # NoReturn
                 /\ heap[ret] = args.f[opt.value]
           /\ opt.cls = "Nothing" =>
                 /\ ret # NoReturn
                 /\ heap[ret] = Nothing
                 /\ calls = <<>>

\* and_then(Some(1), f) with f(1) = Nothing has returned Nothing
OptionAndThenBindWitness ==
    /\ op = "option.and_then"
    /\ pre[args.opt] = Some(Lit("1"))
    /\ args.f[Lit("1")] = Nothing
    /\ heap[ret] = Nothing
    /\ calls = <<Lit("1")>>

\* C9: option_from_optional(None) equals Nothing; for every other x, falsy
\* ones included, option_from_optional(x) equals Some(x); and taking the
\* result back to nullable form (Some(x) to x, Nothing to None) gives the
\* input again.
OptionFromOptionalRoundTrip ==
    op = "option_from_optional" =>
        LET back == IF heap[ret].cls = "Some" THEN heap[ret].value ELSE None
        IN /\ ret # NoReturn
           /\ args.value = None => heap[ret] = Nothing
           /\ args.value # None => heap[ret] = Some(args.value)
           /\ back = args.value

\* option_from_optional(0) has returned Some(0)
OptionFromOptionalRoundTripWitness ==
    /\ op = "option_from_optional"
    /\ args.value = Lit("0")
    /\ heap[ret] = Some(Lit("0"))

\* C10: require_some on Some(v) returns a value equal to Ok(v) whatever err
\* is; require_some on Nothing returns a value equal to Err(err) for the err
\* the caller supplied.
RequireSomeContract ==
    op = "require_some" =>
        LET opt == pre[args.opt]
        IN /\ ret # NoReturn
           /\ opt.cls = "Some" => heap[ret] = Ok(opt.value)
           /\ opt.cls = "Nothing" => heap[ret] = Err(args.err)

\* require_some(Nothing, 'bad') has returned Err('bad')
RequireSomeContractWitness ==
    /\ op = "require_some"
    /\ pre[args.opt] = Nothing
    /\ args.err = Lit("'bad'")
    /\ heap[ret] = Err(Lit("'bad'"))

(***************************************************************************)
(* Properties of the types                                                 *)
(***************************************************************************)
\* C11: an assignment to a field (value, error or kind) of a constructed Ok,
\* Err, Some or Nothing is rejected with FrozenInstanceError, an
\* AttributeError; it never succeeds, and the instance's fields are the
\* same after the attempt as before.
FrozenInstances ==
    op = "setattr" =>
        /\ raised = "FrozenInstanceError"
        /\ ret = NoReturn
        /\ heap[args.obj] = pre[args.obj]

\* the assignment Ok(1).value = 0 was rejected and the instance is Ok(1)
FrozenInstancesWitness ==
    /\ op = "setattr"
    /\ pre[args.obj] = Ok(Lit("1"))
    /\ args.name = "value"
    /\ args.value = Lit("0")
    /\ raised = "FrozenInstanceError"
    /\ heap[args.obj] = Ok(Lit("1"))

(***************************************************************************)
(* Properties of chains of calls                                           *)
(***************************************************************************)
\* C12: in a pipeline of and_then and map_ok steps, when the first Result is
\* an Err or some step's function answers Err, the final value is the Err
\* of the earliest such step, that very object and unchanged, and no
\* function of a later step is invoked; when no step fails, the final value
\* is Ok of the functions composed in order.
PipelineShortCircuit ==
    op = "pipeline" =>
        LET n == Len(chain)
            \* what the steps are meant to give, by the functions alone
            E[k \in 0..n] ==
                IF k = 0 THEN pre[args.result]
                ELSE IF E[k - 1].cls = "Err" THEN E[k - 1]
                ELSE IF chain[k].step = "and_then"
                     THEN chain[k].f[E[k - 1].value]
                     ELSE Ok(chain[k].f[E[k - 1].value])
            Failed == {k \in 0..n : E[k].cls = "Err"}
        IN /\ Failed # {} =>
                 LET k0 == CHOOSE k \in Failed : \A j \in Failed : k <= j
                 IN /\ ret = IF k0 = 0 THEN args.result ELSE chain[k0].ret
                    /\ heap[ret] = E[k0]
                    /\ \A j \in (k0 + 1)..n : chain[j].calls = <<>>
                    /\ Len(calls) = k0
           /\ Failed = {} =>
                 /\ ret # NoReturn
                 /\ heap[ret] = E[n]
                 /\ heap[ret].cls = "Ok"
                 /\ Len(calls) = n

\* parse gave Ok(1), and_then's function answered Err('bad') for 1, and the
\* map_ok after it returned that Err without invoking its function
PipelineShortCircuitWitness ==
    /\ op = "pipeline"
    /\ pre[args.result] = Ok(Lit("1"))
    /\ Len(chain) = 2
    /\ chain[1].step = "and_then"
    /\ chain[1].f[Lit("1")] = Err(Lit("'bad'"))
    /\ chain[2].step = "map_ok"
    /\ chain[2].calls = <<>>
    /\ ret = chain[1].ret
    /\ heap[ret] = Err(Lit("'bad'"))

(***************************************************************************)
(* Algebraic laws                                                          *)
(***************************************************************************)
\* C13: map_ok with the identity function returns a value equal to its
\* argument, for Ok and for Err; map_some with the identity function
\* returns a value equal to its argument, for Some and for Nothing.
FunctorIdentity ==
    /\ (op = "map_ok" /\ args.f = [v \in Values |-> v]) =>
          /\ ret # NoReturn
          /\ heap[ret] = pre[args.result]
    /\ (op = "map_some" /\ args.f = [v \in Values |-> v]) =>
          /\ ret # NoReturn
          /\ heap[ret] = pre[args.opt]

\* map_ok(Ok(1), identity) has returned a new object equal to Ok(1)
FunctorIdentityWitness ==
    /\ op = "map_ok"
    /\ args.f = [v \in Values |-> v]
    /\ pre[args.result] = Ok(Lit("1"))
    /\ ret # args.result
    /\ heap[ret] = Ok(Lit("1"))

\* C14: and_then with the constructor Ok as its function returns a value
\* equal to its argument, for Ok and for Err.
MonadRightIdentity ==
    (op = "result.and_then" /\ args.f = [v \in Values |-> Ok(v)]) =>
        /\ ret # NoReturn
        /\ heap[ret] = pre[args.result]

\* and_then(Ok(0), Ok) has returned a new object equal to Ok(0)
MonadRightIdentityWitness ==
    /\ op = "result.and_then"
    /\ args.f = [v \in Values |-> Ok(v)]
    /\ pre[args.result] = Ok(Lit("0"))
    /\ ret # args.result
    /\ heap[ret] = Ok(Lit("0"))

\* C15: and_then(and_then(r, f), g) equals and_then(r, x => and_then(f(x),
\* g)) for every Result r and all Result-returning f and g.
MonadAssociativity ==
    op = "and_then.assoc" =>
        /\ equal
        /\ args.lhs # NoReturn
        /\ args.rhs # NoReturn
        /\ heap[args.lhs] = heap[args.rhs]

\* with r = Ok(1), f(1) = Ok(0) and g(0) = Err('bad'), both sides are
\* Err('bad')
MonadAssociativityWitness ==
    /\ op = "and_then.assoc"
    /\ pre[args.result] = Ok(Lit("1"))
    /\ args.f[Lit("1")] = Ok(Lit("0"))
    /\ args.g[Lit("0")] = Err(Lit("'bad'"))
    /\ args.lhs # args.rhs
    /\ heap[args.lhs] = Err(Lit("'bad'"))
    /\ heap[args.rhs] = Err(Lit("'bad'"))
    /\ equal

\* C17: two Nothing instances constructed separately are different objects
\* that compare equal, and a Nothing holds no field besides kind.
NothingValueEquality ==
    (op = "eq" /\ pre[args.a].cls = "Nothing" /\ pre[args.b].cls = "Nothing")
        => /\ equal
           /\ args.a # args.b
           /\ DOMAIN pre[args.a] \ {"cls"} = {"kind"}
           /\ DOMAIN pre[args.b] \ {"cls"} = {"kind"}

\* Nothing() == Nothing() has been evaluated on two objects and is true
NothingValueEqualityWitness ==
    /\ op = "eq"
    /\ args.a # args.b
    /\ heap[args.a] = Nothing
    /\ heap[args.b] = Nothing
    /\ equal

(***************************************************************************)
(* Purity, totality, exceptions, aliasing                                  *)
(***************************************************************************)
\* C16: a call of any combinator whose caller-supplied function (if it
\* takes one) raises for no argument returns a Result (an Option for
\* map_some, Option and_then and option_from_optional), raises nothing,
\* changes no object that existed before the call, and invokes the
\* function exactly once when the argument is the variant the combinator
\* acts on and not at all otherwise.
PureAndTotal ==
    LET OnResult == {"map_ok", "result.and_then", "map_err",
                     "discard_ok_value", "collect", "require_some"}
        OnOption == {"map_some", "option.and_then", "option_from_optional"}
        NonRaising == "f" \in DOMAIN args =>
                         \A v \in DOMAIN args.f : args.f[v] \notin Raises
        Expected == IF op \in {"map_ok", "result.and_then"}
                    THEN IF pre[args.result].cls = "Ok" THEN 1 ELSE 0
                    ELSE IF op = "map_err"
                    THEN IF pre[args.result].cls = "Err" THEN 1 ELSE 0
                    ELSE IF op \in {"map_some", "option.and_then"}
                    THEN IF pre[args.opt].cls = "Some" THEN 1 ELSE 0
                    ELSE 0
    IN (op \in OnResult \cup OnOption /\ NonRaising) =>
          /\ raised = NoException
          /\ ret # NoReturn
          /\ op \in OnResult => heap[ret].cls \in {"Ok", "Err"}
          /\ op \in OnOption => heap[ret].cls \in {"Some", "Nothing"}
          /\ Len(calls) = Expected
          /\ \A i \in 1..Len(pre) : heap[i] = pre[i]

\* map_some(Some(1), f) with an f that never raises has invoked f once, on
\* 1, and returned a Some
PureAndTotalWitness ==
    /\ op = "map_some"
    /\ \A v \in DOMAIN args.f : args.f[v] \notin Raises
    /\ pre[args.opt] = Some(Lit("1"))
    /\ calls = <<Lit("1")>>
    /\ raised = NoException
    /\ heap[ret].cls = "Some"

\* C18: when the caller-supplied function raises for the value it is
\* invoked on by map_ok, map_err, map_some or either and_then, that
\* exception leaves the call: nothing is returned and no object (no Err, no
\* Nothing) is built from it.
ExceptionPropagates ==
    LET OnValue == {"map_ok", "result.and_then", "map_some",
                    "option.and_then"}
        Acting == IF op \in {"map_ok", "result.and_then"}
                  THEN pre[args.result].cls = "Ok"
                  ELSE IF op = "map_err"
                  THEN pre[args.result].cls = "Err"
                  ELSE pre[args.opt].cls = "Some"
        Arg == IF op \in {"map_ok", "result.and_then"}
               THEN pre[args.result].value
               ELSE IF op = "map_err"
               THEN pre[args.result].error
               ELSE pre[args.opt].value
    IN (op \in OnValue \cup {"map_err"} /\ Acting /\ args.f[Arg] \in Raises)
          => /\ raised = args.f[Arg].raise
             /\ ret = NoReturn
             /\ heap = pre

\* map_ok(Ok(1), f) with f raising ValueError for 1: the ValueError left
\* the call and nothing was returned
ExceptionPropagatesWitness ==
    /\ op = "map_ok"
    /\ pre[args.result] = Ok(Lit("1"))
    /\ args.f[Lit("1")] = Raise("ValueError")
    /\ calls = <<Lit("1")>>
    /\ raised = "ValueError"
    /\ ret = NoReturn

\* C19: collect changes neither its input list nor any element of it; the
\* list in a returned Ok is an object built by the call, not the input
\* list, so that an append to either list afterwards leaves the other as
\* it was; a returned Err is the input's own element, not a copy.
CollectAliasing ==
    /\ op = "collect" =>
          LET items == pre[args.results].items
              ErrAt == {i \in 1..Len(items) : pre[items[i].ref].cls = "Err"}
          IN /\ \A i \in 1..Len(pre) : heap[i] = pre[i]
             /\ ErrAt = {} =>
                   /\ heap[ret].cls = "Ok"
                   /\ heap[ret].value.ref \notin 1..Len(pre)
                   /\ heap[ret].value.ref # args.results
             /\ ErrAt # {} =>
                   ret = items[CHOOSE i \in ErrAt : \A j \in ErrAt : i <= j].ref
    /\ op = "collect.append" =>
          LET input == args.results
              output == heap[ret].value.ref
          IN /\ heap[args.target] # pre[args.target]
             /\ args.target = input => heap[output] = pre[output]
             /\ args.target = output => heap[input] = pre[input]

\* after collect([Ok(1), Ok(0)]) returned Ok([1, 0]), None was appended to
\* the input list and the returned list is still [1, 0]
CollectAliasingWitness ==
    /\ op = "collect.append"
    /\ args.target = args.results
    /\ Len(heap[args.results].items) = 3
    /\ heap[args.results].items[3] = None
    /\ heap[heap[ret].value.ref] = List(<<Lit("1"), Lit("0")>>)

====
